---- MODULE Spec2Model ----
(***************************************************************************)
(* Model of the sentinel process supervisor:                               *)
(* src-tauri/src/core/process_manager.rs (ProcessManager) together with    *)
(* the operating-system processes it spawns, signals and reaps.            *)
(***************************************************************************)
EXTENDS Integers, Sequences, FiniteSets, TLC

\* ------------------------------------------------------------------ bounds
MaxPid == 2
MaxRestarts == 2
LongRestarts == 65
MaxTime == 1
MaxLines == 1
MaxCap == 3
MaxPushes == 4
MaxEmit == 2
MaxDeps == 2
MaxSpawns == 2
MaxOutput == 1

\* --------------------------------------------------------------- constants
U64Bits == 64

AllNames == {"a", "b"}
PIDs == 1..MaxPid
ExitCodes == {1}

\* Option::None of an Option<u32> pid / of an Option<Child>
NonePid == 0 - 1
NoChild == 0 - 1

\* Option::None of an Option<DateTime<Utc>>
NoneTime == 0 - 1

\* ------------------------------------------------- u64 values (m * 2^e)
\* A u64 is kept as an odd mantissa and a binary exponent, so that values
\* around 2^64 stay exact; U64Max is u64::MAX.
Zero == [m |-> 0, e |-> 0]
One == [m |-> 1, e |-> 0]
U64Max == [m |-> 0 - 1, e |-> 0]

RECURSIVE Norm(_)
Norm(v) ==
    IF v.m = 0 THEN Zero
    ELSE IF v.m % 2 = 0 THEN Norm([m |-> v.m \div 2, e |-> v.e + 1])
    ELSE v

RECURSIVE BitLen(_)
BitLen(n) == IF n = 0 THEN 0 ELSE 1 + BitLen(n \div 2)

\* does the exact value m * 2^e fit 64 bits
Fits(v) == v.m = 0 \/ BitLen(v.m) + v.e <= U64Bits

\* the mathematical product d * 2^k, never truncated
MathShift(d, k) == Norm([m |-> d.m, e |-> d.e + k])

\* 2_u64.pow(k) overflows exactly when k >= 64
PowOverflows(k) == k >= U64Bits

\* 2_u64.pow(k) without overflow checks: 2^k mod 2^64
WrappingPow2(k) == IF k < U64Bits THEN [m |-> 1, e |-> k] ELSE Zero

\* u64::saturating_mul
saturating_mul(a, b) ==
    IF a = Zero \/ b = Zero THEN Zero
    ELSE IF a = U64Max \/ b = U64Max THEN U64Max
    ELSE LET p == Norm([m |-> a.m * b.m, e |-> a.e + b.e])
         IN IF Fits(p) THEN p ELSE U64Max

\* --------------------------------------------------------- command strings
\* A command string is a sequence of characters: "r" is a character of a
\* program name that resolves to an executable, "m" of one that does not,
\* " " is ASCII whitespace.
IsSpace(c) == c = " "

RECURSIVE SplitFrom(_, _, _)
\* str::split_whitespace: cur is the token being read, acc the tokens so far
SplitFrom(s, cur, acc) ==
    IF s = <<>> THEN (IF cur = <<>> THEN acc ELSE Append(acc, cur))
    ELSE IF IsSpace(Head(s))
         THEN SplitFrom(Tail(s), <<>>, IF cur = <<>> THEN acc ELSE Append(acc, cur))
         ELSE SplitFrom(Tail(s), Append(cur, Head(s)), acc)

split_whitespace(s) == SplitFrom(s, <<>>, <<>>)

\* the program Command::new is given
Program(cfg) ==
    IF cfg.args = <<>> THEN Head(split_whitespace(cfg.command)) ELSE cfg.command

\* the lookup the OS does at spawn
Executable(prog) == prog = <<"r">>

CmdEmpty == <<>>
CmdBlank == <<" ">>
CmdRun == <<"r">>
CmdRunArg == <<"r", " ", "r">>
CmdMissing == <<"m">>

\* --------------------------------------------------------------- LogBuffer
\* log_buffer.rs: a LogBuffer is its VecDeque of lines and its max_lines
DEFAULT_MAX_LINES == 10000

Stdout == "Stdout"
Stderr == "Stderr"

Streams == {Stdout, Stderr}
\* the texts of log lines, as sequences of characters
LineTexts == { <<"E", "r">>, <<"o", "k">> }

\* the text the readers of a managed child are followed with
ReaderTexts == { <<"x">> }

\* the queries callers search with
Queries == { <<>>, <<"e">>, <<"R">>, <<"e", "R">>, <<"k", "o">>, <<"O", "K">> }
Capacities == 0..MaxCap

\* one stream of a child: how many lines the child has written to it, the
\* lines waiting in the pipe, and the line its reader task holds between
\* next_line() and push (NoLine when it holds none); lines go by their number
NoLine == 0
NoStream == [emitted |-> 0, pipe |-> <<>>, held |-> NoLine]

\* LogLine { timestamp, stream, line }
LogLine(t, s, l) == [timestamp |-> t, stream |-> s, line |-> l]

\* LogBuffer::with_capacity
with_capacity(max_lines) == [lines |-> <<>>, max_lines |-> max_lines]

\* LogBuffer::new
LogBuffer_new == with_capacity(DEFAULT_MAX_LINES)

\* VecDeque::pop_front: nothing happens on an empty deque
pop_front(q) == IF q = <<>> THEN q ELSE Tail(q)

\* variant: at capacity the newest buffered line is the one dropped
push_EvictsNewest(b, line) ==
    [b EXCEPT !.lines =
        Append(IF Len(b.lines) >= b.max_lines /\ b.lines # <<>>
               THEN SubSeq(b.lines, 1, Len(b.lines) - 1) ELSE b.lines, line)]

\* LogBuffer::push
push(b, line) ==
    [b EXCEPT !.lines =
        Append(IF Len(b.lines) >= b.max_lines THEN pop_front(b.lines) ELSE b.lines,
               line)]

\* LogBuffer::get_all
get_all(b) == b.lines

\* LogBuffer::len
len(b) == Len(b.lines)

\* LogBuffer::is_empty
is_empty(b) == b.lines = <<>>

\* LogBuffer::clear
clear(b) == [b EXCEPT !.lines = <<>>]

\* LogBuffer::capacity
capacity(b) == b.max_lines

\* Iterator::rev
RECURSIVE rev(_)
rev(q) == IF q = <<>> THEN <<>> ELSE Append(rev(Tail(q)), Head(q))

\* Iterator::take
take(q, n) == IF n >= Len(q) THEN q ELSE SubSeq(q, 1, n)

\* variant: the lines are handed out newest first
get_last_n_NewestFirst(b, n) == take(rev(b.lines), n)

\* LogBuffer::get_last_n: iter().rev().take(n).cloned().rev().collect()
get_last_n(b, n) == rev(take(rev(b.lines), n))

\* char::to_lowercase on the characters the texts are made of
LowerChar(c) ==
    IF c = "E" THEN "e"
    ELSE IF c = "R" THEN "r"
    ELSE IF c = "O" THEN "o"
    ELSE IF c = "K" THEN "k"
    ELSE c

\* str::to_lowercase
to_lowercase(t) == [i \in DOMAIN t |-> LowerChar(t[i])]

\* str::contains
contains(hay, needle) ==
    \E i \in 0..Len(hay) :
        /\ i + Len(needle) <= Len(hay)
        /\ SubSeq(hay, i + 1, i + Len(needle)) = needle

\* Iterator::filter(..).cloned().collect() with the predicate of search
RECURSIVE FilterText(_, _)
FilterText(q, query_lower) ==
    IF q = <<>> THEN <<>>
    ELSE IF contains(to_lowercase(Head(q).line), query_lower)
         THEN <<Head(q)>> \o FilterText(Tail(q), query_lower)
         ELSE FilterText(Tail(q), query_lower)

\* variant: the query is compared as it was typed
search_QueryAsTyped(b, query) == FilterText(b.lines, query)

\* LogBuffer::search
search(b, query) == FilterText(b.lines, to_lowercase(query))

\* ------------------------------------------------------------ configurations
\* ProcessConfig; cwd, env, depends_on and health_check do not reach the
\* lifecycle decisions and are left out.
Config(n, c, a, ar, rl, rd) ==
    [name |-> n, command |-> c, args |-> a,
     auto_restart |-> ar, restart_limit |-> rl, restart_delay |-> rd]

\* restart policies (auto_restart, restart_limit, restart_delay) callers use
Policy(ar, rl, rd) == [auto_restart |-> ar, restart_limit |-> rl, restart_delay |-> rd]

MainPolicies ==
    { Policy(FALSE, 0, Zero),
      Policy(TRUE, 0, [m |-> 1, e |-> 63]),
      Policy(TRUE, 1, One) }

SidePolicies == { Policy(TRUE, 1, One) }

LongPolicies == { Policy(TRUE, 0, Zero), Policy(TRUE, 0, One) }

\* configurations that can spawn, and configurations that cannot
GoodConfigs(names, pols) ==
    { Config(n, CmdRunArg, <<>>, p.auto_restart, p.restart_limit, p.restart_delay) :
        n \in names, p \in pols }

BadConfigs(names) ==
    { Config(n, c, <<>>, FALSE, 0, Zero) : n \in names, c \in {CmdBlank, CmdMissing} }
    \cup { Config(n, CmdEmpty, <<"x">>, FALSE, 0, Zero) : n \in names }

\* the callers' configurations: "a" under every policy, "b" beside it
MainConfigs ==
    GoodConfigs({"a"}, MainPolicies) \cup GoodConfigs({"b"}, SidePolicies)
    \cup BadConfigs({"a"})

LongConfigs == GoodConfigs({"a"}, LongPolicies) \cup BadConfigs({"a"})

ObservedConfigs == GoodConfigs({"a"}, SidePolicies) \cup BadConfigs({"a"})

\* one name under every policy, and a configuration whose name is empty
SweepConfigs ==
    GoodConfigs({"a"}, MainPolicies) \cup BadConfigs({"a"})
    \cup GoodConfigs({""}, {Policy(FALSE, 0, Zero)})

NoConfig == Config("", CmdEmpty, <<>>, FALSE, 0, Zero)

\* ------------------------------------------------------ configuration files
\* core/config.rs: a Config is the list of its processes, each with a name,
\* a command and the names it depends on; the other fields take no part in
\* validate
BatchNames == {"a", "b", "c"}

Entry(n, deps) == [name |-> n, command |-> CmdRunArg, depends_on |-> deps]

\* sequences over S of length n
SeqsOfLen(S, n) == [1..n -> S]

\* sequences over S without a repeated element, of length 0..n
SeqsNoRep(S, n) ==
    { q \in UNION { SeqsOfLen(S, k) : k \in 0..n } :
        \A i, j \in DOMAIN q : q[i] = q[j] => i = j }

\* the depends_on lists of the files
DepLists == SeqsNoRep(BatchNames, MaxDeps)

\* the files: every order of every choice of distinct names, each process
\* with any dependency list, and files that declare a name twice
BatchConfigs ==
    { [i \in DOMAIN names |-> Entry(names[i], deps[i])] :
        names \in SeqsNoRep(BatchNames, Cardinality(BatchNames)) \ {<<>>},
        deps \in SeqsOfLen(DepLists, Cardinality(BatchNames)) }
    \cup { <<Entry(n, d1), Entry(n, d2)>> : n \in BatchNames, d1, d2 \in DepLists }

\* a batch: the file, the outcome of loading it, and the names start was
\* called for so far, in call order
NewBatch(f) == [config |-> f, loaded |-> "", cycle |-> <<>>, started |-> <<>>]

\* the name set validate collects; a name seen twice is a duplicate
HasDuplicate(config) ==
    \E i, j \in DOMAIN config : i < j /\ config[i].name = config[j].name

AllNamesOf(config) == { config[i].name : i \in DOMAIN config }

\* str::trim().is_empty() on a name
IsBlankName(n) == n \in {"", " "}

\* ConfigManager::validate_process: "" when the process passes
validate_process(process, all_names) ==
    IF IsBlankName(process.name) THEN "InvalidConfig"
    ELSE IF split_whitespace(process.command) = <<>> THEN "InvalidConfig"
    ELSE IF \E i \in DOMAIN process.depends_on : process.depends_on[i] \notin all_names
         THEN "UnknownDependency"
    ELSE ""

\* the graph check_dependency_cycles builds: name -> depends_on
GraphOf(config) ==
    [n \in AllNamesOf(config) |->
        LET i == CHOOSE k \in DOMAIN config :
                    /\ config[k].name = n
                    /\ \A m \in DOMAIN config : config[m].name = n => m <= k
        IN config[i].depends_on]

Walk(visited, rec_stack, cycle) ==
    [visited |-> visited, rec_stack |-> rec_stack, cycle |-> cycle]

RECURSIVE dfs_cycle(_, _, _, _), dfs_neighbors(_, _, _, _, _)

\* the loop of dfs_cycle over the neighbors of node
dfs_neighbors(graph, node, nbrs, visited, rec_stack) ==
    IF nbrs = <<>> THEN Walk(visited, rec_stack, <<>>)
    ELSE LET neighbor == Head(nbrs) IN
         IF neighbor \notin visited
         THEN LET r == dfs_cycle(graph, neighbor, visited, rec_stack)
              IN IF r.cycle # <<>> THEN r
                 ELSE dfs_neighbors(graph, node, Tail(nbrs), r.visited, r.rec_stack)
         ELSE IF neighbor \in rec_stack
         THEN Walk(visited, rec_stack, <<neighbor, node>>)
         ELSE dfs_neighbors(graph, node, Tail(nbrs), visited, rec_stack)

\* variant: a visited neighbor is taken for a cycle wherever it was met
dfs_cycle_VisitedIsCycle(graph, node, visited, rec_stack) ==
    LET r == dfs_neighbors(graph, node,
                           IF node \in DOMAIN graph THEN graph[node] ELSE <<>>,
                           visited \cup {node}, visited \cup rec_stack \cup {node})
    IN IF r.cycle # <<>> THEN r ELSE [r EXCEPT !.rec_stack = @ \ {node}]

\* ConfigManager::dfs_cycle
dfs_cycle(graph, node, visited, rec_stack) ==
    LET r == dfs_neighbors(graph, node,
                           IF node \in DOMAIN graph THEN graph[node] ELSE <<>>,
                           visited \cup {node}, rec_stack \cup {node})
    IN IF r.cycle # <<>> THEN r ELSE [r EXCEPT !.rec_stack = @ \ {node}]

RECURSIVE CycleFrom(_, _, _, _)
\* the loop of check_dependency_cycles over the processes from index i on
CycleFrom(config, i, visited, rec_stack) ==
    IF i > Len(config) THEN <<>>
    ELSE IF config[i].name \in visited THEN CycleFrom(config, i + 1, visited, rec_stack)
    ELSE LET r == dfs_cycle(GraphOf(config), config[i].name, visited, rec_stack)
         IN IF r.cycle # <<>> THEN r.cycle
            ELSE CycleFrom(config, i + 1, r.visited, r.rec_stack)

\* ConfigManager::check_dependency_cycles: the cycle reported, <<>> for none
check_dependency_cycles(config) == CycleFrom(config, 1, {}, {})

\* ConfigManager::validate: Ok or the kind of the first error
validate(config) ==
    IF HasDuplicate(config) THEN "InvalidConfig"
    ELSE IF \E i \in DOMAIN config :
                validate_process(config[i], AllNamesOf(config)) # ""
    THEN LET i == CHOOSE k \in DOMAIN config :
                    /\ validate_process(config[k], AllNamesOf(config)) # ""
                    /\ \A m \in 1..(k - 1) :
                           validate_process(config[m], AllNamesOf(config)) = ""
         IN validate_process(config[i], AllNamesOf(config))
    ELSE IF check_dependency_cycles(config) # <<>> THEN "DependencyCycle"
    ELSE "Ok"

\* ------------------------------------------------------------ PTY manager
PtyIds == {"x"}
PtyCommands == {"r", "s"}

\* pty_process_manager::ProcessConfig; args, cwd and env travel with the
\* command and are kept as one value each
PtyConfig(id, c) ==
    [process_id |-> id, command |-> c, args |-> <<>>, cwd |-> "none", env |-> "none"]

PtyConfigs == { PtyConfig(id, c) : id \in PtyIds, c \in PtyCommands }

NoPtyCall == [kind |-> "", process_id |-> "", config |-> PtyConfig("", "")]

\* PtyProcessManager::new
PtyProcessManager_new ==
    [processes |-> [n \in {} |-> 0], configs |-> [n \in {} |-> 0], call |-> NoPtyCall]

\* ------------------------------------------------------------------- state
VARIABLES
    processes,  \* ProcessManager.processes: name -> ProcessHandle
    os,         \* the OS process table: pid -> status of the process
    op,         \* the ProcessManager call in progress and its locals
    result,     \* what the call that returned in the last step returned
    world,      \* the callers' inputs and the build profile
    now,        \* the wall clock Utc::now() reads
    buffer,     \* a LogBuffer of its own, as the unit tests build one
    pushed,     \* the lines pushed into buffer since it was last empty
    streams,    \* stdout and stderr of one child: its pipes and reader tasks
    batch,      \* a configuration file and the batch start made from it
    pty,        \* the PtyProcessManager: its handles, configs and call in progress
    children,   \* the children spawned under a PTY, each with its reader task
    running,    \* ProcessController.running: config id -> RunningProcess
    arcs        \* the log buffers that only reader tasks of replaced handles hold

vars == <<processes, os, op, result, world, now, buffer, pushed, streams, batch, pty, children, running, arcs>>

EmptyMap == [n \in {} |-> 0]

Free == [st |-> "free", code |-> 0]
Alive == [st |-> "alive", code |-> 0]

Idle ==
    [kind |-> "idle", phase |-> "", name |-> "", child |-> NoChild,
     config |-> NoConfig, names |-> <<>>, restarted |-> <<>>,
     delay |-> Zero, rc |-> 0, pre |-> EmptyMap, seen |-> {}]

\* a returned value: the call, its name argument, Ok or the error kind, the
\* pid it carries, the list it carries; via is the branch the call logged
Ret(o, n, r, p, l) ==
    [op |-> o, name |-> n, res |-> r, pid |-> p, list |-> l, via |-> "", seen |-> {},
     count |-> 0, query |-> <<>>]

NoResult == Ret("", "", "", NonePid, <<>>)

InitWith(mode, caps, files) ==
    /\ processes = EmptyMap
    /\ os = [p \in PIDs |-> Free]
    /\ op = Idle
    /\ result = NoResult
    /\ \E oc \in BOOLEAN : world = [mode |-> mode, overflow_checks |-> oc]
    /\ now = 0
    /\ \E c \in caps : buffer = with_capacity(c)
    /\ pushed = <<>>
    /\ streams = [s \in Streams |-> NoStream]
    /\ \E f \in files : batch = NewBatch(f)
    /\ pty = PtyProcessManager_new
    /\ children = <<>>
    /\ running = EmptyMap
    /\ arcs = <<>>

\* the configurations the callers pass to start
Configs ==
    IF world.mode = "long" THEN LongConfigs
    ELSE IF world.mode = "observed" THEN ObservedConfigs
    ELSE IF world.mode = "sweep" THEN SweepConfigs
    ELSE IF world.mode = "arcs" THEN GoodConfigs({"a"}, SidePolicies)
    ELSE MainConfigs

\* the names the callers use
CallNames == { c.name : c \in Configs }

\* how many restarts of one name the model follows
Cap == IF world.mode = "long" THEN LongRestarts ELSE MaxRestarts

\* ProcessManager::new; the callers use two names and the main policies
Init == InitWith("main", {0}, {<<>>})

\* one name under an unlimited restart policy, followed through many restarts
InitLong == InitWith("long", {0}, {<<>>})

\* one name, with the clock and the log readers followed
InitObserved == InitWith("observed", {0}, {<<>>})

\* the health sweeps of one name, beside a process whose name is empty
InitSweep == InitWith("sweep", {0}, {<<>>})

\* one name whose reader tasks are followed beyond the handle they were
\* spawned for
InitArcs == InitWith("arcs", {0}, {<<>>})

\* no process is managed; a LogBuffer of some capacity is exercised
InitLog == InitWith("log", Capacities, {<<>>})

\* one child right after start: its LogBuffer::new() and its two reader tasks
InitReaders == InitWith("readers", {DEFAULT_MAX_LINES}, {<<>>})

\* a PtyProcessManager right after new()
InitPty == InitWith("pty", {0}, {<<>>})

\* AppState::new: a ProcessController over the PtyProcessManager that the
\* PTY commands use as well
InitController == InitWith("controller", {0}, {<<>>})

\* sentinel start: a configuration file is about to be loaded
InitBatch == InitWith("batch", {0}, BatchConfigs)

\* ------------------------------------------------------------ ProcessInfo
State(tag, code) == [tag |-> tag, exit_code |-> code]
Running == State("Running", 0)
Stopping == State("Stopping", 0)
Stopped == State("Stopped", 0)
Crashed(code) == State("Crashed", code)

\* ProcessInfo::is_running
info_is_running(h) == h.state = Running

\* HashMap::insert
Insert(map, k, v) == [n \in DOMAIN map \cup {k} |-> IF n = k THEN v ELSE map[n]]

\* variant: the entry stays in the map
RemoveKey_Keeps(map, k) == map

\* HashMap::remove
RemoveKey(map, k) == [n \in DOMAIN map \ {k} |-> map[n]]

\* ProcessManager::is_running
is_running(procs, name) ==
    IF name \in DOMAIN procs THEN info_is_running(procs[name]) ELSE FALSE

\* Option::unwrap_or(0)
unwrap_or_0(pid) == IF pid = NonePid THEN 0 ELSE pid

\* ------------------------------------------------------------------ start
\* the OS refuses to create the process
NoSpawn == 0

\* what cmd.spawn() may answer: a pid that is free, or a refusal
SpawnChoices == { p \in PIDs : os[p] = Free } \cup {NoSpawn}

\* variant: the handle is stored as Starting
NewHandle_Starting(cfg, pid) ==
    [state |-> State("Starting", 0), pid |-> pid, child |-> pid, config |-> cfg,
     restart_count |-> 0, info_restart_count |-> 0,
     stopped_at |-> NoneTime, log_buffer |-> LogBuffer_new]

\* the handle start stores on success
NewHandle(cfg, pid) ==
    [state |-> Running, pid |-> pid, child |-> pid, config |-> cfg,
     restart_count |-> 0, info_restart_count |-> 0,
     stopped_at |-> NoneTime, log_buffer |-> LogBuffer_new]

\* variant: only a handle that is being stopped blocks a start
AlreadyRunning_OnlyStopping(procs, cfg) ==
    cfg.name \in DOMAIN procs /\ procs[cfg.name].state = Stopping

\* the already-running check at the head of start
AlreadyRunning(procs, cfg) ==
    cfg.name \in DOMAIN procs /\ info_is_running(procs[cfg.name])

\* how start(cfg) ends: p is the pid the OS gives the child, or NoSpawn when
\* the OS refuses the spawn
StartOutcome(procs, cfg, p) ==
    IF AlreadyRunning(procs, cfg) THEN "ProcessAlreadyRunning"
    ELSE IF cfg.args = <<>> /\ split_whitespace(cfg.command) = <<>> THEN "InvalidConfig"
    ELSE IF ~Executable(Program(cfg)) THEN "SpawnFailed"
    ELSE IF p = NoSpawn THEN "SpawnFailed"
    ELSE IF os[p] # Free THEN "SpawnFailed"
    ELSE "Ok"

\* variant: a handle is stored although the spawn failed
StartProcs_StoresFailed(procs, cfg, p) ==
    IF StartOutcome(procs, cfg, p) \in {"Ok", "SpawnFailed"}
    THEN Insert(procs, cfg.name, NewHandle(cfg, IF p = NoSpawn THEN NonePid ELSE p))
    ELSE procs

\* variant: a start of a managed name goes on with the buffer of its handle
StartBuffer_Reused(procs, cfg) ==
    IF cfg.name \in DOMAIN procs THEN procs[cfg.name].log_buffer ELSE LogBuffer_new

\* let log_buffer = Arc::new(Mutex::new(LogBuffer::new()))
StartBuffer(procs, cfg) == LogBuffer_new

\* self.processes after start(cfg)
StartProcs(procs, cfg, p) ==
    IF StartOutcome(procs, cfg, p) = "Ok"
    THEN Insert(procs, cfg.name,
                [NewHandle(cfg, p) EXCEPT !.log_buffer = StartBuffer(procs, cfg)])
    ELSE procs

\* the insert of start drops the handle it replaces; the reader tasks
\* spawned for that handle keep their clones of its buffer and go on until
\* their pipes are closed. Where the callers are those of InitArcs, the
\* buffer of the handle that was replaced last is followed
StartArcs(procs, cfg, p) ==
    IF /\ StartOutcome(procs, cfg, p) = "Ok"
       /\ cfg.name \in DOMAIN procs
       /\ world.mode = "arcs"
    THEN <<[name |-> cfg.name, buffer |-> procs[cfg.name].log_buffer]>>
    ELSE arcs

\* variant: no process comes into being
StartOs_NoProcess(procs, cfg, p) == os

\* the process table after start(cfg)
StartOs(procs, cfg, p) ==
    IF StartOutcome(procs, cfg, p) = "Ok" THEN [os EXCEPT ![p] = Alive] ELSE os

\* the value start returns: Ok(info) or the error with its fields
StartRet(o, procs, cfg, p) ==
    LET out == StartOutcome(procs, cfg, p) IN
    Ret(o, cfg.name, out,
        IF out = "Ok" THEN p
        ELSE IF out = "ProcessAlreadyRunning" THEN unwrap_or_0(procs[cfg.name].pid)
        ELSE NonePid,
        <<>>)

\* a caller invokes start(cfg)
StartCall ==
    /\ op = Idle
    /\ \E cfg \in Configs, p \in SpawnChoices :
        /\ processes' = StartProcs(processes, cfg, p)
        /\ os' = StartOs(processes, cfg, p)
        /\ result' = StartRet("start", processes, cfg, p)
        /\ arcs' = StartArcs(processes, cfg, p)
    /\ UNCHANGED <<op, world, now, buffer, pushed, streams, batch, pty, children, running>>

\* ------------------------------------------------------- the child processes
Exited(code) == [st |-> "exited", code |-> code]
Signaled == [st |-> "signaled", code |-> 0]
Detached == [st |-> "detached", code |-> 0]

\* variant: a child that still runs is taken for an exited one
HasExited_OrAlive(p) == os[p].st \in {"exited", "signaled", "alive"}

\* child.try_wait() or child.wait() has an exit status to give
HasExited(p) == os[p].st \in {"exited", "signaled"}

\* ExitStatus::code().unwrap_or(-1): a process killed by a signal has no code
exit_code_of(status) == IF status.st = "signaled" THEN 0 - 1 ELSE status.code

\* the handle that owns the Child of pid p, if any
Owners(p) == { n \in DOMAIN processes : processes[n].child = p }

\* a child ends on its own account, by exit or by a signal
ChildDies ==
    /\ \E p \in PIDs, st \in {Exited(c) : c \in ExitCodes} \cup {Signaled} :
        /\ os[p] = Alive
        /\ \A n \in Owners(p) : processes[n].restart_count < Cap
        /\ os' = [os EXCEPT ![p] = st]
    /\ result' = NoResult
    /\ UNCHANGED <<processes, op, world, now, buffer, pushed, streams, batch, pty, children, running, arcs>>

\* a process whose Child was dropped unreaped keeps its pid until it has
\* ended and the runtime has reaped it
ReapOrphan ==
    /\ \E p \in PIDs :
        /\ os[p] = Detached
        /\ os' = [os EXCEPT ![p] = Free]
    /\ result' = NoResult
    /\ UNCHANGED <<processes, op, world, now, buffer, pushed, streams, batch, pty, children, running, arcs>>

\* ------------------------------------------------------------------- stop
\* variant: the Child stays in the handle that is being stopped
StoppingHandle_KeepsChild(h) == [h EXCEPT !.state = Stopping]

\* variant: the pid is cleared as soon as the stop is requested
StoppingHandle_ClearsPid(h) == [h EXCEPT !.state = Stopping, !.child = NoChild, !.pid = NonePid]

\* stop marks the handle Stopping and takes the Child out of it
StoppingHandle(h) == [h EXCEPT !.state = Stopping, !.child = NoChild]

\* variant: the stop records the end of the child as a crash
StoppedHandle_AsCrashed(h) ==
    [h EXCEPT !.state = Crashed(0), !.pid = NonePid, !.stopped_at = now]

\* variant: the state is not set on the way out
StoppedHandle_KeepsState(h) == [h EXCEPT !.pid = NonePid, !.stopped_at = now]

\* the tail of stop and stop_gracefully
StoppedHandle(h) == [h EXCEPT !.state = Stopped, !.pid = NonePid, !.stopped_at = now]

\* what the caller of stop(name) does once stop has returned Ok
AfterStopOp(o) ==
    IF o.kind = "restart" THEN [o EXCEPT !.phase = "restart_sleep", !.child = NoChild]
    ELSE IF o.kind = "stop_all" THEN [o EXCEPT !.phase = "sa_next", !.child = NoChild]
    ELSE Idle

AfterStopResult(o, via) ==
    IF o.kind \in {"restart", "stop_all"} THEN NoResult
    ELSE [Ret(o.kind, o.name, "Ok", NonePid, <<>>) EXCEPT !.via = via]

\* variant: a missing name is answered with success
ProcessNotFound_AsOk(kind, name) == Ret(kind, name, "Ok", NonePid, <<>>)

\* the error stop, stop_gracefully and restart give for a name with no handle
ProcessNotFound(kind, name) == Ret(kind, name, "ProcessNotFound", NonePid, <<>>)

\* variant: only a Stopped handle makes stop return at once
StopReturnsEarly_OnlyStopped(h) == h.state = Stopped

\* the early return of stop and stop_gracefully
StopReturnsEarly(h) == ~info_is_running(h)

\* stop(name) on behalf of the call o, up to its first suspension
\* (or to its return when it does not wait)
StopEnter(o, name) ==
    LET h == processes[name] IN
    IF StopReturnsEarly(h)
    THEN /\ processes' = processes
         /\ op' = AfterStopOp([o EXCEPT !.name = name])
         /\ result' = AfterStopResult([o EXCEPT !.name = name], "not_running")
    ELSE IF h.child = NoChild
    THEN /\ processes' = [processes EXCEPT ![name] = StoppedHandle(StoppingHandle(h))]
         /\ op' = AfterStopOp([o EXCEPT !.name = name])
         /\ result' = AfterStopResult([o EXCEPT !.name = name], "no_child")
    ELSE /\ processes' = [processes EXCEPT ![name] = StoppingHandle(h)]
         /\ op' = [o EXCEPT !.name = name, !.phase = "stop_wait", !.child = h.child]
         /\ result' = NoResult

\* a caller invokes stop(name) or stop_gracefully(name)
StopCall ==
    /\ op = Idle
    /\ \E name \in CallNames, kind \in {"stop", "stop_gracefully"} :
        IF name \notin DOMAIN processes
        THEN /\ result' = ProcessNotFound(kind, name)
             /\ UNCHANGED <<processes, op>>
        ELSE StopEnter([Idle EXCEPT !.kind = kind], name)
    /\ UNCHANGED <<os, world, now, buffer, pushed, streams, batch, pty, children, running, arcs>>

\* the end of the wait: the handle becomes Stopped and the caller goes on
StopLeave(newOs, via) ==
    /\ processes' = [processes EXCEPT ![op.name] = StoppedHandle(@)]
    /\ os' = newOs
    /\ op' = AfterStopOp(op)
    /\ result' = AfterStopResult(op, via)
    /\ UNCHANGED <<world, now, buffer, pushed, streams, batch, pty, children, running, arcs>>

\* child.wait() returned Ok(status) inside the window: the child is reaped
StopChildExited ==
    /\ op.phase = "stop_wait"
    /\ HasExited(op.child)
    /\ StopLeave([os EXCEPT ![op.child] = Free], "exited")

\* child.wait() returned Err: the Child is dropped unreaped, whatever the
\* process is doing
StopWaitError ==
    /\ op.phase = "stop_wait"
    /\ StopLeave([os EXCEPT ![op.child] = Detached], "wait_error")

\* the window elapsed: the child is killed and reaped
\* (stop: child.kill().await; stop_gracefully: SIGKILL, then child.wait())
StopTimeout ==
    /\ op.phase = "stop_wait"
    /\ os[op.child] = Alive
    /\ StopLeave([os EXCEPT ![op.child] = Free], "timeout")

\* ---------------------------------------------------------------- restart
\* a caller invokes restart(name): the config is read, then stop(name)
RestartCall ==
    /\ op = Idle
    /\ \E name \in CallNames :
        IF name \notin DOMAIN processes
        THEN /\ result' = ProcessNotFound("restart", name)
             /\ UNCHANGED <<processes, op>>
        ELSE StopEnter([Idle EXCEPT !.kind = "restart",
                                    !.config = processes[name].config,
                                    !.pre = processes], name)
    /\ UNCHANGED <<os, world, now, buffer, pushed, streams, batch, pty, children, running, arcs>>

\* the sleep of restart_delay is over: start(config)
RestartWake ==
    /\ op.kind = "restart"
    /\ op.phase = "restart_sleep"
    /\ \E p \in SpawnChoices :
        /\ processes' = StartProcs(processes, op.config, p)
        /\ os' = StartOs(processes, op.config, p)
        /\ result' = StartRet("restart", processes, op.config, p)
        /\ arcs' = StartArcs(processes, op.config, p)
    /\ op' = Idle
    /\ UNCHANGED <<world, now, buffer, pushed, streams, batch, pty, children, running>>

\* --------------------------------------------------------------- stop_all
\* the orders in which a HashMap may yield the keys S
Orders(S) ==
    { q \in [1..Cardinality(S) -> S] : \A n \in S : \E i \in DOMAIN q : q[i] = n }

\* variant: only the first key is collected
StopAllNames_FirstOnly(procs) ==
    IF DOMAIN procs = {} THEN {<<>>} ELSE { <<n>> : n \in DOMAIN procs }

\* names = self.processes.keys().cloned().collect()
StopAllNames(procs) == Orders(DOMAIN procs)

StopAllCall ==
    /\ op = Idle
    /\ \E q \in StopAllNames(processes) :
        op' = [Idle EXCEPT !.kind = "stop_all", !.phase = "sa_next", !.names = q]
    /\ result' = NoResult
    /\ UNCHANGED <<processes, os, world, now, buffer, pushed, streams, batch, pty, children, running, arcs>>

\* the next name of the loop
StopAllNext ==
    /\ op.kind = "stop_all"
    /\ op.phase = "sa_next"
    /\ op.names # <<>>
    /\ StopEnter([op EXCEPT !.names = Tail(op.names),
                             !.seen = @ \cup {Head(op.names)}], Head(op.names))
    /\ UNCHANGED <<os, world, now, buffer, pushed, streams, batch, pty, children, running, arcs>>

StopAllDone ==
    /\ op.kind = "stop_all"
    /\ op.phase = "sa_next"
    /\ op.names = <<>>
    /\ op' = Idle
    /\ result' = [Ret("stop_all", "", "Ok", NonePid, <<>>) EXCEPT !.seen = op.seen]
    /\ UNCHANGED <<processes, os, world, now, buffer, pushed, streams, batch, pty, children, running, arcs>>

\* ----------------------------------------------------------------- remove
RemoveCall ==
    /\ op = Idle
    /\ \E name \in CallNames :
        IF is_running(processes, name)
        THEN /\ result' = Ret("remove", name, "Other", NonePid, <<>>)
             /\ UNCHANGED processes
        ELSE /\ processes' = RemoveKey(processes, name)
             /\ result' = [Ret("remove", name, "Ok", NonePid, <<>>) EXCEPT
                                !.via = IF name \in DOMAIN processes
                                        THEN "removed" ELSE "absent"]
    /\ UNCHANGED <<os, op, world, now, buffer, pushed, streams, batch, pty, children, running, arcs>>

\* ----------------------------------------------------------- check_health
\* variant: the comparison admits one restart too many
BudgetLeft_OffByOne(h) ==
    h.config.restart_limit = 0 \/ h.restart_count <= h.config.restart_limit

\* the restart budget test of check_health
BudgetLeft(h) ==
    h.config.restart_limit = 0 \/ h.restart_count < h.config.restart_limit

\* variant: the auto_restart flag is not consulted
ShouldRestart_IgnoresAuto(h) == BudgetLeft(h)

\* should_restart for a handle whose child was found exited
ShouldRestart(h) == h.config.auto_restart /\ BudgetLeft(h)

\* variant: the exit seen by check_health is recorded as a stop
CrashedHandle_AsStopped(h, status) ==
    [h EXCEPT !.state = Stopped, !.pid = NonePid, !.child = NoChild, !.stopped_at = now]

\* variant: the pid stays in the info of the crashed handle
CrashedHandle_KeepsPid(h, status) ==
    [h EXCEPT !.state = Crashed(exit_code_of(status)), !.child = NoChild,
              !.stopped_at = now]

\* the handle after try_wait returned Ok(Some(status))
CrashedHandle(h, status) ==
    [h EXCEPT !.state = Crashed(exit_code_of(status)), !.pid = NonePid,
              !.child = NoChild, !.stopped_at = now]

\* delay_ms = base_delay.saturating_mul(2_u64.pow(restart_count)),
\* in a build without overflow checks
BackoffDelay(h) == saturating_mul(h.config.restart_delay, WrappingPow2(h.restart_count))

\* 2_u64.pow(restart_count) panics in a build with overflow checks
BackoffPanics(h) == world.overflow_checks /\ PowOverflows(h.restart_count)

\* the restart tracking written after a successful start
RestartedHandle(h, rc) == [h EXCEPT !.restart_count = rc + 1, !.info_restart_count = rc + 1]

\* a caller invokes check_health(): the names are collected
CheckHealthCall ==
    /\ op = Idle
    /\ \E q \in Orders(DOMAIN processes) :
        op' = [Idle EXCEPT !.kind = "check_health", !.phase = "poll",
                           !.names = q, !.pre = processes]
    /\ result' = NoResult
    /\ UNCHANGED <<processes, os, world, now, buffer, pushed, streams, batch, pty, children, running, arcs>>

\* the loop passes a name whose child is absent or still running
CheckHealthSkip ==
    /\ op.kind = "check_health"
    /\ op.phase = "poll"
    /\ op.names # <<>>
    /\ LET name == Head(op.names) IN
        IF name \notin DOMAIN processes THEN TRUE
        ELSE IF processes[name].child = NoChild THEN TRUE
        ELSE os[processes[name].child] = Alive
    /\ op' = [op EXCEPT !.names = Tail(op.names)]
    /\ result' = NoResult
    /\ UNCHANGED <<processes, os, world, now, buffer, pushed, streams, batch, pty, children, running, arcs>>

\* try_wait returned Err: logged, the handle is left as it is
CheckHealthPollError ==
    /\ op.kind = "check_health"
    /\ op.phase = "poll"
    /\ op.names # <<>>
    /\ Head(op.names) \in DOMAIN processes
    /\ processes[Head(op.names)].child # NoChild
    /\ op' = [op EXCEPT !.names = Tail(op.names)]
    /\ result' = NoResult
    /\ UNCHANGED <<processes, os, world, now, buffer, pushed, streams, batch, pty, children, running, arcs>>

\* try_wait returned Ok(Some(status)): the handle is marked Crashed and the
\* restart is decided; a restart computes its backoff and goes to sleep
CheckHealthExited ==
    /\ op.kind = "check_health"
    /\ op.phase = "poll"
    /\ op.names # <<>>
    /\ Head(op.names) \in DOMAIN processes
    /\ LET name == Head(op.names)
           h == processes[name]
       IN /\ h.child # NoChild
          /\ HasExited(h.child)
          /\ LET c == CrashedHandle(h, os[h.child])
                 o == [op EXCEPT !.name = name, !.seen = @ \cup {name}]
             IN /\ processes' = [processes EXCEPT ![name] = c]
                /\ os' = [os EXCEPT ![h.child] = Free]
                /\ IF ~ShouldRestart(c)
                   THEN /\ op' = [o EXCEPT !.names = Tail(op.names)]
                        /\ result' = NoResult
                   ELSE IF BackoffPanics(c)
                   THEN /\ op' = Idle
                        /\ result' = [Ret("check_health", name, "Panic", NonePid,
                                           op.restarted) EXCEPT !.seen = o.seen]
                   ELSE /\ op' = [o EXCEPT !.phase = "backoff_sleep",
                                           !.delay = BackoffDelay(c),
                                           !.config = c.config,
                                           !.rc = c.restart_count]
                        /\ result' = NoResult
    /\ UNCHANGED <<world, now, buffer, pushed, streams, batch, pty, children, running, arcs>>

\* the backoff sleep is over: start(config), then the restart tracking
CheckHealthWake ==
    /\ op.kind = "check_health"
    /\ op.phase = "backoff_sleep"
    /\ \E p \in SpawnChoices :
        LET out == StartOutcome(processes, op.config, p)
            started == StartProcs(processes, op.config, p)
        IN /\ processes' =
                IF out = "Ok"
                THEN [started EXCEPT ![op.name] = RestartedHandle(@, op.rc)]
                ELSE started
           /\ os' = StartOs(processes, op.config, p)
           /\ arcs' = StartArcs(processes, op.config, p)
           /\ op' = [op EXCEPT !.phase = "poll", !.names = Tail(op.names),
                               !.restarted = IF out = "Ok" THEN Append(@, op.name) ELSE @]
    /\ result' = NoResult
    /\ UNCHANGED <<world, now, buffer, pushed, streams, batch, pty, children, running>>

\* the loop is over: the restarted names are returned
CheckHealthDone ==
    /\ op.kind = "check_health"
    /\ op.phase = "poll"
    /\ op.names = <<>>
    /\ op' = Idle
    /\ result' = [Ret("check_health", "", "Ok", NonePid, op.restarted)
                     EXCEPT !.seen = op.seen]
    /\ UNCHANGED <<processes, os, world, now, buffer, pushed, streams, batch, pty, children, running, arcs>>

\* ------------------------------------------------- the clock and the readers
\* time passes
Tick ==
    /\ now < MaxTime
    /\ now' = now + 1
    /\ result' = NoResult
    /\ UNCHANGED <<processes, os, op, world, buffer, pushed, streams, batch, pty, children, running, arcs>>

\* read_stream: a reader task of the current incarnation of a name got a line
\* from its pipe and pushes it into the handle's buffer
ReadLine ==
    /\ \E n \in DOMAIN processes, s \in Streams, l \in ReaderTexts :
        /\ len(processes[n].log_buffer) < MaxLines
        /\ processes' = [processes EXCEPT
                            ![n].log_buffer = push(@, LogLine(now, s, l))]
    /\ result' = NoResult
    /\ UNCHANGED <<os, op, world, now, buffer, pushed, streams, batch, pty, children, running, arcs>>

\* read_stream: a reader task spawned for a handle that a start has
\* replaced got a line from its pipe and pushes it into its buffer
OldReaderPush ==
    /\ \E i \in DOMAIN arcs, s \in Streams, l \in ReaderTexts :
        /\ len(arcs[i].buffer) < MaxLines
        /\ arcs' = [arcs EXCEPT ![i].buffer = push(@, LogLine(now, s, l))]
    /\ result' = NoResult
    /\ UNCHANGED <<processes, os, op, world, now, buffer, pushed, streams, batch, pty, children, running>>

\* ProcessManager::get_logs
get_logs(procs, name) ==
    IF name \in DOMAIN procs THEN get_all(procs[name].log_buffer) ELSE <<>>

\* a caller invokes get_logs(name)
GetLogsCall ==
    /\ op = Idle
    /\ \E name \in CallNames :
        result' = Ret("get_logs", name, IF name \in DOMAIN processes THEN "Some" ELSE "None",
                      NonePid, get_logs(processes, name))
    /\ UNCHANGED <<processes, os, op, world, now, buffer, pushed, streams, batch, pty, children, running, arcs>>

\* ------------------------------------------- the reader tasks of one child
\* the child writes its next line to a stream
ChildWrites ==
    /\ \E s \in Streams :
        /\ streams[s].emitted < MaxEmit
        /\ streams' = [streams EXCEPT ![s].emitted = @ + 1,
                                      ![s].pipe = Append(@, streams[s].emitted + 1)]
    /\ result' = NoResult
    /\ UNCHANGED <<processes, os, op, world, now, buffer, pushed, batch, pty, children, running, arcs>>

\* variant: the reader is handed the newest line of the pipe
NextLine_Newest(pipe) == pipe[Len(pipe)]

\* lines.next_line().await: the oldest line waiting in the pipe
NextLine(pipe) == Head(pipe)

\* read_stream: the reader of a stream gets a line
ReaderNextLine ==
    /\ \E s \in Streams :
        /\ streams[s].held = NoLine
        /\ streams[s].pipe # <<>>
        /\ streams' = [streams EXCEPT ![s].held = NextLine(streams[s].pipe),
                                      ![s].pipe = Tail(@)]
    /\ result' = NoResult
    /\ UNCHANGED <<processes, os, op, world, now, buffer, pushed, batch, pty, children, running, arcs>>

\* read_stream: the reader locks the buffer and pushes the line it holds
ReaderPush ==
    /\ \E s \in Streams :
        /\ streams[s].held # NoLine
        /\ buffer' = push(buffer, LogLine(now, s, streams[s].held))
        /\ streams' = [streams EXCEPT ![s].held = NoLine]
    /\ result' = NoResult
    /\ UNCHANGED <<processes, os, op, world, now, pushed, batch, pty, children, running, arcs>>

\* get_logs: a facade reader locks the buffer and copies it
GetLogs ==
    /\ result' = Ret("get_logs", "", "Ok", NonePid, get_all(buffer))
    /\ UNCHANGED <<processes, os, op, world, now, buffer, pushed, streams, batch, pty, children, running, arcs>>

\* ------------------------------------------------- a LogBuffer on its own
\* LogBuffer::with_capacity(c)
LogWithCapacity ==
    /\ \E c \in Capacities : buffer' = with_capacity(c)
    /\ pushed' = <<>>
    /\ result' = Ret("with_capacity", "", "Ok", NonePid, <<>>)
    /\ UNCHANGED <<processes, os, op, world, now, streams, batch, pty, children, running, arcs>>

\* buffer.push(line)
LogPush ==
    /\ Len(pushed) < MaxPushes
    /\ \E s \in Streams, l \in LineTexts :
        /\ buffer' = push(buffer, LogLine(now, s, l))
        /\ pushed' = Append(pushed, LogLine(now, s, l))
    /\ result' = Ret("push", "", "Ok", NonePid, <<>>)
    /\ UNCHANGED <<processes, os, op, world, now, streams, batch, pty, children, running, arcs>>

\* buffer.get_last_n(k)
LogGetLastN ==
    /\ \E k \in 0..(MaxPushes + 1) :
        result' = [Ret("get_last_n", "", "Ok", NonePid, get_last_n(buffer, k))
                      EXCEPT !.count = k]
    /\ UNCHANGED <<processes, os, op, world, now, buffer, pushed, streams, batch, pty, children, running, arcs>>

\* buffer.search(q)
LogSearch ==
    /\ \E q \in Queries :
        result' = [Ret("search", "", "Ok", NonePid, search(buffer, q))
                      EXCEPT !.query = q]
    /\ UNCHANGED <<processes, os, op, world, now, buffer, pushed, streams, batch, pty, children, running, arcs>>

\* buffer.clear()
LogClear ==
    /\ buffer' = clear(buffer)
    /\ pushed' = <<>>
    /\ result' = Ret("clear", "", "Ok", NonePid, <<>>)
    /\ UNCHANGED <<processes, os, op, world, now, streams, batch, pty, children, running, arcs>>

\* ---------------------------------------------------------- specification
\* the facade: every command takes state.process_manager.lock().await and
\* keeps the guard until the manager call it makes has returned
ManagerLocked == op # Idle

\* the call that holds the manager is suspended in stop's or
\* stop_gracefully's timed wait, restart's delay or check_health's backoff
Suspended == op.phase \in {"stop_wait", "restart_sleep", "backoff_sleep"}

Next ==
    \/ StartCall
    \/ StopCall
    \/ StopChildExited
    \/ StopWaitError
    \/ StopTimeout
    \/ RestartCall
    \/ RestartWake
    \/ StopAllCall
    \/ StopAllNext
    \/ StopAllDone
    \/ RemoveCall
    \/ CheckHealthCall
    \/ CheckHealthSkip
    \/ CheckHealthPollError
    \/ CheckHealthExited
    \/ CheckHealthWake
    \/ CheckHealthDone
    \/ ChildDies
    \/ ReapOrphan

Spec == Init /\ [][Next]_vars

SpecLong == InitLong /\ [][Next]_vars

SpecSweep == InitSweep /\ [][Next]_vars

NextObserved ==
    \/ Next
    \/ Tick
    \/ ReadLine

SpecObserved == InitObserved /\ [][NextObserved]_vars

\* the calls, the reader tasks of the handles and those of replaced handles
NextArcs ==
    \/ Next
    \/ ReadLine
    \/ OldReaderPush
    \/ GetLogsCall

SpecArcs == InitArcs /\ [][NextArcs]_vars

\* ------------------------------------------------------- PTY manager calls
\* the child spawn_command makes, with the reader task that owns it; the
\* processes made under a PTY are numbered as they are made, and the number
\* stands for the pid
PtyChild(id, p) ==
    [process_id |-> id, pid |-> p, st |-> "alive", reader |-> "reading", events |-> <<>>]

\* ProcessHandle; config is what the command of its child was built from,
\* pid names the child whose PtyPair and JoinHandle it holds
PtyHandle(id, p, cfg) == [process_id |-> id, pid |-> p, config |-> cfg]

\* the outcomes of a spawn: it fails, or the next process is made
PtySpawnChoices ==
    (IF Len(children) < MaxSpawns THEN {Len(children) + 1} ELSE {}) \cup {NoSpawn}

\* variant: the spawn does not store the config
StoreSpawn_NoConfig(m, id, cfg, p) ==
    [m EXCEPT !.processes = Insert(@, id, PtyHandle(id, p, cfg))]

\* spawn_process, steps 5 and 6: the config and the handle are inserted
\* under the id, replacing what was there
StoreSpawn(m, id, cfg, p) ==
    [m EXCEPT !.configs = Insert(@, id, cfg),
              !.processes = Insert(@, id, PtyHandle(id, p, cfg))]

\* PtyProcessManager::spawn_process: openpty, spawn_command, process_id or
\* try_clone_reader fail (p = NoSpawn), or the child and its reader task
\* are made and the manager records them
SpawnPty(m, id, cfg, p) == IF p = NoSpawn THEN m ELSE StoreSpawn(m, id, cfg, p)

SpawnChildren(id, cfg, p) ==
    IF p = NoSpawn THEN children ELSE Append(children, PtyChild(id, p))

SpawnRet(o, id, p) ==
    IF p = NoSpawn THEN Ret(o, id, "Other", NonePid, <<>>) ELSE Ret(o, id, "Ok", p, <<>>)

\* a caller invokes spawn_process(id, command, args, cwd, env)
PtySpawn ==
    /\ pty.call = NoPtyCall
    /\ \E cfg \in PtyConfigs, p \in PtySpawnChoices :
        /\ pty' = SpawnPty(pty, cfg.process_id, cfg, p)
        /\ children' = SpawnChildren(cfg.process_id, cfg, p)
        /\ result' = SpawnRet("spawn_process", cfg.process_id, p)
    /\ UNCHANGED <<processes, os, op, world, now, buffer, pushed, streams, batch, running, arcs>>

\* kill_process: the handle is removed and SIGTERM sent to its pid: the
\* process ends when it handles the signal, if it does (PtyChildExits), and
\* the call does not wait for it; abort() does not stop a spawn_blocking
\* task, so the reader task goes on
Killed(m, id) == [m EXCEPT !.processes = RemoveKey(@, id)]

\* PtyProcessManager::is_running
pty_is_running(m, id) == id \in DOMAIN m.processes

\* PtyProcessManager::list_processes
list_processes(m) == { [process_id |-> m.processes[id].process_id, pid |-> m.processes[id].pid] :
                        id \in DOMAIN m.processes }

\* a caller invokes kill_process(id)
PtyKill ==
    /\ pty.call = NoPtyCall
    /\ \E id \in PtyIds :
        IF pty_is_running(pty, id)
        THEN /\ pty' = Killed(pty, id)
             /\ result' = Ret("kill_process", id, "Ok", NonePid, <<>>)
        ELSE /\ result' = Ret("kill_process", id, "ProcessNotFound", NonePid, <<>>)
             /\ pty' = pty
    /\ UNCHANGED <<processes, os, op, world, now, buffer, pushed, streams, batch, children, running, arcs>>

\* a caller invokes is_running(id)
PtyIsRunning ==
    /\ pty.call = NoPtyCall
    /\ \E id \in PtyIds :
        result' = Ret("is_running", id, IF pty_is_running(pty, id) THEN "true" ELSE "false",
                      NonePid, <<>>)
    /\ UNCHANGED <<processes, os, op, world, now, buffer, pushed, streams, batch, pty, children, running, arcs>>

\* a caller invokes list_processes()
PtyList ==
    /\ pty.call = NoPtyCall
    /\ result' = [Ret("list_processes", "", "Ok", NonePid, <<>>) EXCEPT
                    !.seen = { i.process_id : i \in list_processes(pty) }]
    /\ UNCHANGED <<processes, os, op, world, now, buffer, pushed, streams, batch, pty, children, running, arcs>>

\* a caller invokes save_config(config)
PtySaveConfig ==
    /\ pty.call = NoPtyCall
    /\ \E cfg \in PtyConfigs :
        /\ pty' = [pty EXCEPT !.configs = Insert(@, cfg.process_id, cfg)]
        /\ result' = Ret("save_config", cfg.process_id, "Ok", NonePid, <<>>)
    /\ UNCHANGED <<processes, os, op, world, now, buffer, pushed, streams, batch, children, running, arcs>>

\* a caller invokes remove_config(id)
PtyRemoveConfig ==
    /\ pty.call = NoPtyCall
    /\ \E id \in PtyIds :
        /\ pty' = [pty EXCEPT !.configs = RemoveKey(@, id)]
        /\ result' = Ret("remove_config", id, "Ok", NonePid, <<>>)
    /\ UNCHANGED <<processes, os, op, world, now, buffer, pushed, streams, batch, children, running, arcs>>

\* a caller invokes restart_process(id): without a stored config it fails;
\* a process that is_running is killed and the call sleeps 100 ms;
\* otherwise it goes on to spawn at once
PtyRestartCall ==
    /\ pty.call = NoPtyCall
    /\ \E id \in PtyIds :
        IF id \notin DOMAIN pty.configs
        THEN /\ result' = Ret("restart_process", id, "ProcessNotFound", NonePid, <<>>)
             /\ UNCHANGED <<pty, children, running, arcs>>
        ELSE IF pty_is_running(pty, id)
        THEN /\ pty' = [Killed(pty, id) EXCEPT
                            !.call = [kind |-> "restart", process_id |-> id,
                                      config |-> pty.configs[id]]]
             /\ children' = children
             /\ result' = NoResult
        ELSE \E p \in PtySpawnChoices :
             /\ pty' = SpawnPty(pty, id, pty.configs[id], p)
             /\ children' = SpawnChildren(id, pty.configs[id], p)
             /\ result' = [SpawnRet("restart_process", id, p) EXCEPT !.via = "not_running"]
    /\ UNCHANGED <<processes, os, op, world, now, buffer, pushed, streams, batch, running, arcs>>

\* restart_process after its sleep: spawn_process with the config it read
PtyRestartWake ==
    /\ pty.call.kind = "restart"
    /\ \E p \in PtySpawnChoices :
        /\ pty' = [SpawnPty(pty, pty.call.process_id, pty.call.config, p) EXCEPT
                        !.call = NoPtyCall]
        /\ children' = SpawnChildren(pty.call.process_id, pty.call.config, p)
        /\ result' = [SpawnRet("restart_process", pty.call.process_id, p) EXCEPT
                        !.via = "killed"]
    /\ UNCHANGED <<processes, os, op, world, now, buffer, pushed, streams, batch, running, arcs>>

\* ------------------------------------------------- PTY children and readers
PtyEvent(topic, id) == [topic |-> topic, process_id |-> id]

Outputs(c) == { i \in DOMAIN c.events : c.events[i].topic = "process-output" }

RECURSIVE OutputsOf(_)
\* the number of process-output events emitted so far
OutputsOf(cs) ==
    IF cs = <<>> THEN 0 ELSE Cardinality(Outputs(Head(cs))) + OutputsOf(Tail(cs))

\* a child under a PTY ends, on its own account or on a signal
PtyChildExits ==
    /\ \E k \in DOMAIN children :
        /\ children[k].st = "alive"
        /\ children' = [children EXCEPT ![k].st = "exited"]
    /\ result' = NoResult
    /\ UNCHANGED <<processes, os, op, world, now, buffer, pushed, streams, batch, pty, running, arcs>>

\* reader task, Ok(n): bytes were read and a process-output event is emitted
PtyReaderOutput ==
    /\ \E k \in DOMAIN children :
        /\ children[k].reader = "reading"
        /\ OutputsOf(children) < MaxOutput
        /\ children' = [children EXCEPT
                ![k].events = Append(@, PtyEvent("process-output", children[k].process_id))]
    /\ result' = NoResult
    /\ UNCHANGED <<processes, os, op, world, now, buffer, pushed, streams, batch, pty, running, arcs>>

\* reader task, Ok(0): the child has exited and the read returns end of
\* file; a process-exit event is emitted, the loop ends, and child.wait()
\* returns the status of the child that has exited
PtyReaderEof ==
    /\ \E k \in DOMAIN children :
        /\ children[k].reader = "reading"
        /\ children[k].st = "exited"
        /\ children' = [children EXCEPT
                ![k].events = Append(@, PtyEvent("process-exit", children[k].process_id)),
                ![k].reader = "done", ![k].st = "reaped"]
    /\ result' = NoResult
    /\ UNCHANGED <<processes, os, op, world, now, buffer, pushed, streams, batch, pty, running, arcs>>

\* reader task, Err(e): the child has exited and the read fails (EIO on
\* the master side); the error is logged, the loop ends, and child.wait()
\* returns the status of the child that has exited
PtyReaderErr ==
    /\ \E k \in DOMAIN children :
        /\ children[k].reader = "reading"
        /\ children[k].st = "exited"
        /\ children' = [children EXCEPT ![k].reader = "done", ![k].st = "reaped"]
    /\ result' = NoResult
    /\ UNCHANGED <<processes, os, op, world, now, buffer, pushed, streams, batch, pty, running, arcs>>

\* ------------------------------------------------------------ batch start
\* the ProcessConfig of an entry of the file, as start receives it
ProcessConfigOf(e) == Config(e.name, e.command, <<>>, FALSE, 0, Zero)

\* ConfigManager::load_from_file: the file is parsed and validated
LoadConfig ==
    /\ op = Idle
    /\ batch.loaded = ""
    /\ batch' = [batch EXCEPT
                    !.loaded = validate(batch.config),
                    !.cycle = IF validate(batch.config) = "DependencyCycle"
                              THEN check_dependency_cycles(batch.config) ELSE <<>>]
    /\ result' = Ret("load_from_file", "", validate(batch.config), NonePid, <<>>)
    /\ UNCHANGED <<processes, os, op, world, now, buffer, pushed, streams, pty, children, running, arcs>>

\* the entry the loop of the batch start has reached
NextEntry == batch.config[Len(batch.started) + 1]

\* sentinel start: one turn of the loop over config.processes, which calls
\* start for the next process of the file and goes on whatever it returns
BatchStartNext ==
    /\ op = Idle
    /\ batch.loaded = "Ok"
    /\ Len(batch.started) < Len(batch.config)
    /\ \E p \in SpawnChoices :
        /\ processes' = StartProcs(processes, ProcessConfigOf(NextEntry), p)
        /\ os' = StartOs(processes, ProcessConfigOf(NextEntry), p)
        /\ result' = StartRet("start", processes, ProcessConfigOf(NextEntry), p)
    /\ batch' = [batch EXCEPT !.started = Append(@, NextEntry.name)]
    /\ UNCHANGED <<op, world, now, buffer, pushed, streams, pty, children, running, arcs>>

NextLog ==
    \/ LogWithCapacity
    \/ LogPush
    \/ LogClear
    \/ LogGetLastN
    \/ LogSearch

SpecLog == InitLog /\ [][NextLog]_vars

NextReaders ==
    \/ ChildWrites
    \/ ReaderNextLine
    \/ ReaderPush
    \/ GetLogs

SpecReaders == InitReaders /\ [][NextReaders]_vars

\* ------------------------------------------------------ ProcessController
\* process_config::ProcessConfig: the id the controller tracks and the name
\* it uses as the process_id of the PTY
CtlConfig(id, n, c) == [id |-> id, name |-> n, command |-> c]

CtlConfigs == { CtlConfig("c", n, "r") : n \in PtyIds }

RunningProcess(cfg, p) == [config_id |-> cfg.id, process_id |-> cfg.name, pid |-> p]

\* the arguments start_from_config passes to spawn_process
CtlSpawnArgs(cfg) == [PtyConfig(cfg.name, cfg.command) EXCEPT !.cwd = "working_dir"]

\* ProcessController::start_from_config: a tracked id returns its status;
\* otherwise the PTY is spawned under the name and, if that succeeded, the
\* id is tracked
CtlStart ==
    /\ pty.call = NoPtyCall
    /\ \E cfg \in CtlConfigs :
        IF cfg.id \in DOMAIN running
        THEN /\ result' = [Ret("start_from_config", cfg.id, "Ok", running[cfg.id].pid, <<>>)
                              EXCEPT !.via = "tracked"]
             /\ UNCHANGED <<pty, children, running, arcs>>
        ELSE \E p \in PtySpawnChoices :
             /\ pty' = SpawnPty(pty, cfg.name, CtlSpawnArgs(cfg), p)
             /\ children' = SpawnChildren(cfg.name, CtlSpawnArgs(cfg), p)
             /\ running' = IF p = NoSpawn THEN running
                           ELSE Insert(running, cfg.id, RunningProcess(cfg, p))
             /\ result' = SpawnRet("start_from_config", cfg.id, p)
    /\ UNCHANGED <<processes, os, op, world, now, buffer, pushed, streams, batch, arcs>>

\* ProcessController::stop_by_config_id: the process_id is looked up, the
\* PTY is killed and, if kill_process returned Ok, the id is untracked
CtlStop ==
    /\ pty.call = NoPtyCall
    /\ \E cfg \in CtlConfigs :
        IF cfg.id \notin DOMAIN running
        THEN /\ result' = [ProcessNotFound("stop_by_config_id", cfg.id)
                              EXCEPT !.via = "untracked"]
             /\ UNCHANGED <<pty, running, arcs>>
        ELSE IF pty_is_running(pty, running[cfg.id].process_id)
        THEN /\ pty' = Killed(pty, running[cfg.id].process_id)
             /\ running' = RemoveKey(running, cfg.id)
             /\ result' = Ret("stop_by_config_id", cfg.id, "Ok", NonePid, <<>>)
        ELSE /\ result' = [ProcessNotFound("stop_by_config_id", cfg.id)
                              EXCEPT !.via = "kill_process"]
             /\ UNCHANGED <<pty, running, arcs>>
    /\ UNCHANGED <<processes, os, op, world, now, buffer, pushed, streams, batch, children, arcs>>

NextPty ==
    \/ PtySpawn
    \/ PtyKill
    \/ PtyIsRunning
    \/ PtyList
    \/ PtySaveConfig
    \/ PtyRemoveConfig
    \/ PtyRestartCall
    \/ PtyRestartWake
    \/ PtyChildExits
    \/ PtyReaderOutput
    \/ PtyReaderEof
    \/ PtyReaderErr

SpecPty == InitPty /\ [][NextPty]_vars

\* the controller commands beside the PTY commands, on one PtyProcessManager
NextController ==
    \/ NextPty
    \/ CtlStart
    \/ CtlStop

SpecController == InitController /\ [][NextController]_vars

NextBatch ==
    \/ LoadConfig
    \/ BatchStartNext

SpecBatch == InitBatch /\ [][NextBatch]_vars

TypeOK ==
    /\ DOMAIN processes \subseteq AllNames
    /\ \A n \in DOMAIN processes :
        /\ processes[n].pid \in PIDs \cup {NonePid}
        /\ processes[n].child \in PIDs \cup {NoChild}
        /\ processes[n].state.tag \in {"Running", "Stopping", "Stopped", "Crashed"}
    /\ \A p \in PIDs : os[p].st \in {"free", "alive", "exited", "signaled", "detached"}

\* ------------------------------------------------------------------ claims
Managed == DOMAIN processes

\* C1 (as stated): in every reachable state, also while stop or
\* stop_gracefully is suspended in its wait, every managed handle has
\* state == Running if and only if its pid is not None.
C1_RunningIffPid ==
    \A n \in Managed : (processes[n].state = Running) <=> (processes[n].pid # NonePid)

\* C1 (amended): every managed handle has a pid if and only if it is Running
\* or Stopping; a handle is Stopping only while a stop of it is suspended in
\* its wait, and outside such a wait state == Running iff pid is not None.
C1_PidIffRunningOrStopping ==
    \A n \in Managed :
        /\ (processes[n].state \in {Running, Stopping}) <=> (processes[n].pid # NonePid)
        /\ processes[n].state = Stopping => (op.phase = "stop_wait" /\ op.name = n)
        /\ op.phase # "stop_wait" =>
              ((processes[n].state = Running) <=> (processes[n].pid # NonePid))

C1_Witness ==
    \E n \in Managed :
        /\ op.phase = "stop_wait" /\ op.name = n
        /\ processes[n].state = Stopping
        /\ processes[n].pid \in PIDs

\* C2: start(config) on a name whose handle is Running fails with
\* ProcessAlreadyRunning carrying the name and the pid of the running child;
\* nothing is spawned and the handle is unchanged.
C2_AlreadyRunningRefused ==
    [][ (result'.op = "start" /\ is_running(processes, result'.name)) =>
            /\ result'.res = "ProcessAlreadyRunning"
            /\ result'.pid = processes[result'.name].child
            /\ result'.pid \in PIDs
            /\ processes' = processes
            /\ os' = os ]_vars

C2_Witness ==
    /\ result.op = "start"
    /\ result.res = "ProcessAlreadyRunning"
    /\ result.name \in Managed
    /\ result.pid = processes[result.name].pid

\* C3 (as stated): right after start(cfg) returns, is_running(cfg.name) is
\* true if and only if the call returned Ok.
C3_RunningIffOk ==
    result.op = "start" =>
        (is_running(processes, result.name) <=> result.res = "Ok")

\* C3 (amended): right after start(cfg) returns, is_running(cfg.name) is true
\* if and only if the call returned Ok or failed with ProcessAlreadyRunning.
C3_RunningIffOkOrAlready ==
    result.op = "start" =>
        (is_running(processes, result.name)
            <=> result.res \in {"Ok", "ProcessAlreadyRunning"})

C3_Witness ==
    /\ result.op = "start"
    /\ result.res = "ProcessAlreadyRunning"
    /\ is_running(processes, result.name)

\* C4: when stop(name) has returned success, by whichever way its wait ended,
\* is_running(name) is false, the pid is None and the state is neither
\* Running nor Stopping.
C4_StoppedAfterStop ==
    (result.op = "stop" /\ result.res = "Ok") =>
        /\ result.name \in Managed
        /\ ~is_running(processes, result.name)
        /\ processes[result.name].pid = NonePid
        /\ processes[result.name].state \notin {Running, Stopping}

C4_Witness ==
    /\ result.op = "stop" /\ result.res = "Ok" /\ result.via = "timeout"
    /\ processes[result.name].state = Stopped

\* C5: a handle whose config has restart_limit > 0 never has a restart_count
\* above restart_limit.
C5_CountWithinLimit ==
    \A n \in Managed :
        processes[n].config.restart_limit > 0 =>
            /\ processes[n].restart_count <= processes[n].config.restart_limit
            /\ processes[n].info_restart_count <= processes[n].config.restart_limit

C5_Witness ==
    \E n \in Managed :
        /\ processes[n].config.restart_limit > 0
        /\ processes[n].restart_count = processes[n].config.restart_limit
        /\ processes[n].state.tag = "Crashed"
        /\ result.op = "check_health"
        /\ n \in result.seen

\* the elements of a sequence
Range(q) == { q[i] : i \in DOMAIN q }

\* this step is check_health finding the child of n exited (try_wait gave
\* Ok(Some(status)) and the Child was dropped from the handle)
ObservedExit(n) ==
    /\ op.kind = "check_health" /\ op.phase = "poll"
    /\ op.names # <<>>
    /\ Head(op.names) = n
    /\ n \in Managed
    /\ processes[n].child # NoChild
    /\ HasExited(processes[n].child)
    /\ processes'[n].child = NoChild

\* the restart condition as the specification words it
AutoAndBudget(h) ==
    /\ h.config.auto_restart
    /\ (h.config.restart_limit = 0 \/ h.restart_count < h.config.restart_limit)

\* this step spawned a process
Spawned == \E p \in PIDs : os[p] # Alive /\ os'[p] = Alive

\* C6: when check_health finds a Running child exited, auto_restart is set
\* and the budget is not used up, it respawns the child from the saved
\* config; when the respawn succeeds the handle is Running with a pid, its
\* restart_count is one more than before the sweep, and the name is in the
\* returned list.
C6_RespawnOnExit ==
    [][ /\ \A n \in Managed :
            /\ (ObservedExit(n) /\ AutoAndBudget(processes[n])) =>
                    /\ op'.kind = "check_health"
                    /\ op'.phase = "backoff_sleep"
                    /\ op'.name = n
                    /\ op'.config = processes[n].config
            /\ (op.phase = "backoff_sleep" /\ op.name = n /\ Spawned) =>
                    /\ processes'[n].state = Running
                    /\ processes'[n].pid \in PIDs
                    /\ processes'[n].config = op.pre[n].config
                    /\ processes'[n].restart_count = op.pre[n].restart_count + 1
                    /\ n \in Range(op'.restarted)
        /\ (op.kind = "check_health" /\ result'.op = "check_health") =>
                (result'.res = "Ok" /\ result'.list = op.restarted) ]_vars

\* C7: when check_health finds the child exited and the budget is used up or
\* auto_restart is off, the handle is Crashed{exit_code} with pid None at the
\* end of the sweep, nothing is spawned for it, its restart_count is
\* unchanged and its name is not in the returned list.
C7_NoRestartWithoutBudget ==
    [][ /\ \A n \in Managed :
            (ObservedExit(n) /\ ~AutoAndBudget(processes[n])) =>
                /\ processes'[n].state =
                       Crashed(IF os[processes[n].child].st = "signaled"
                               THEN 0 - 1 ELSE os[processes[n].child].code)
                /\ processes'[n].pid = NonePid
                /\ processes'[n].restart_count = processes[n].restart_count
                /\ processes'[n].config = processes[n].config
                /\ op'.kind = "check_health" /\ op'.phase = "poll"
                /\ op'.restarted = op.restarted
                /\ ~Spawned
        /\ (op.kind = "check_health" /\ result'.op = "check_health") =>
              \A n \in op.seen :
                 ~AutoAndBudget(op.pre[n]) =>
                    /\ n \in DOMAIN processes'
                    /\ processes'[n].state.tag = "Crashed"
                    /\ processes'[n].pid = NonePid
                    /\ processes'[n].restart_count = op.pre[n].restart_count
                    /\ n \notin Range(result'.list) ]_vars

C7_Witness ==
    /\ result.op = "check_health" /\ result.res = "Ok"
    /\ \E n \in result.seen :
        /\ processes[n].state.tag = "Crashed"
        /\ processes[n].pid = NonePid
        /\ processes[n].config.auto_restart
        /\ processes[n].config.restart_limit > 0
        /\ processes[n].restart_count >= processes[n].config.restart_limit
        /\ n \notin Range(result.list)

\* C8: with restart_limit = 0 a sweep that finds an auto_restart child exited
\* goes on to the restart for every restart_count k, and a successful
\* restart leaves restart_count = k + 1; the sweep never refuses and never
\* aborts.
C8_UnlimitedRestarts ==
    [][ /\ \A n \in Managed :
            /\ (/\ ObservedExit(n)
                /\ processes[n].config.auto_restart
                /\ processes[n].config.restart_limit = 0) =>
                    /\ op'.kind = "check_health"
                    /\ op'.phase = "backoff_sleep"
                    /\ op'.rc = processes[n].restart_count
            /\ (/\ op.phase = "backoff_sleep" /\ op.name = n /\ Spawned
                /\ op.config.restart_limit = 0) =>
                    processes'[n].restart_count = op.rc + 1
        /\ result'.res # "Panic" ]_vars

\* C9: the wait before an auto-restart is restart_delay * 2^restart_count
\* milliseconds for every reachable restart_count, and so 0 whenever
\* restart_delay is 0.
C9_BackoffIsDelayTimesPow ==
    [][ \A n \in Managed :
          (ObservedExit(n) /\ AutoAndBudget(processes[n])) =>
              /\ op'.phase = "backoff_sleep"
              /\ op'.delay = MathShift(processes[n].config.restart_delay,
                                       processes[n].restart_count)
              /\ (processes[n].config.restart_delay = Zero => op'.delay = Zero) ]_vars

C11_FailedStartNoPartialState ==
    [][ /\ (/\ result'.op \in {"start", "restart"}
            /\ result'.res \in {"InvalidConfig", "SpawnFailed"}) =>
                (processes' = processes /\ os' = os)
        /\ (/\ op.kind = "check_health" /\ op.phase = "backoff_sleep"
            /\ op'.phase = "poll" /\ op'.restarted = op.restarted) =>
                (processes' = processes /\ os' = os) ]_vars

C11_Witness ==
    /\ result.op = "restart"
    /\ result.res = "SpawnFailed"
    /\ result.name \in Managed
    /\ processes[result.name].state = Stopped
    /\ processes[result.name].pid = NonePid

\* C12: stop(name) and restart(name) on a name that has no handle fail with
\* ProcessNotFound, and the set of handles, every handle and the process
\* table are unchanged; ProcessNotFound is given for no managed name.
C12_NotFoundUnchanged ==
    [][ /\ (/\ op = Idle
            /\ result'.op \in {"stop", "restart"}
            /\ result'.name \notin Managed) =>
                /\ result'.res = "ProcessNotFound"
                /\ processes' = processes
                /\ os' = os
                /\ op' = Idle
        /\ result'.res = "ProcessNotFound" => result'.name \notin Managed ]_vars

C12_Witness ==
    /\ result.op = "restart"
    /\ result.res = "ProcessNotFound"
    /\ result.name \notin Managed
    /\ \E n \in Managed : processes[n].state = Running

\* C13: stop(name) on a managed handle that is not Running (Stopped or
\* Crashed) returns Ok and changes nothing: state, pid, stopped_at,
\* restart_count and log buffer of every handle are as before (also when the
\* clock has moved on since the handle stopped), so a second stop after a
\* stop adds nothing.
C13_StopNotRunningIsNoOp ==
    [][ (/\ op = Idle
         /\ result'.op = "stop"
         /\ result'.name \in Managed
         /\ ~is_running(processes, result'.name)) =>
            /\ result'.res = "Ok"
            /\ processes' = processes
            /\ os' = os
            /\ op' = Idle ]_vars

C13_Witness ==
    /\ result.op = "stop" /\ result.res = "Ok" /\ result.via = "not_running"
    /\ result.name \in Managed
    /\ processes[result.name].state = Stopped
    /\ processes[result.name].stopped_at # NoneTime
    /\ processes[result.name].stopped_at < now
    /\ len(processes[result.name].log_buffer) > 0

\* the handle of the restarted name when restart(name) was called
BeforeRestart == op.pre[op.name]

\* this step is restart(name) returning Ok
RestartReturnsOk ==
    /\ op.kind = "restart"
    /\ result'.op = "restart"
    /\ result'.res = "Ok"

C15_StopAllStopsAll ==
    [][ /\ (op.kind = "stop_all" /\ result'.op = "stop_all") =>
                /\ result'.res = "Ok"
                /\ result'.seen = Managed
                /\ DOMAIN processes' = Managed
                /\ \A n \in Managed :
                       processes'[n].state \notin {Running, Stopping}
        /\ (op.kind = "stop_all" /\ op' # Idle) =>
                op.seen \subseteq op'.seen ]_vars

C15_Witness ==
    /\ result.op = "stop_all"
    /\ result.res = "Ok"
    /\ Cardinality(result.seen) = 2
    /\ \A n \in result.seen : processes[n].state = Stopped
    /\ \E p \in PIDs : os[p] = Detached

\* C16: when stop_gracefully(name) on a Running handle returns, the child has
\* exited and has been reaped (its pid has left the process table), and the
\* handle is Stopped with pid None.
C16_GracefulStopReaps ==
    [][ (/\ op.kind = "stop_gracefully"
         /\ op.phase = "stop_wait"
         /\ result'.op = "stop_gracefully") =>
            /\ result'.res = "Ok"
            /\ os'[op.child] = Free
            /\ processes'[op.name].state = Stopped
            /\ processes'[op.name].pid = NonePid ]_vars

\* C17: remove(name) on a Running handle fails and leaves every handle as it
\* was; on a managed handle that is not Running it returns Ok and the name is
\* no longer managed (get(name) is None, list() lacks it), the other handles
\* being untouched.
C17_RemoveOnlyWhenNotRunning ==
    [][ result'.op = "remove" =>
            /\ is_running(processes, result'.name) =>
                    /\ result'.res # "Ok"
                    /\ processes' = processes
            /\ (result'.name \in Managed /\ ~is_running(processes, result'.name)) =>
                    /\ result'.res = "Ok"
                    /\ result'.name \notin DOMAIN processes'
                    /\ DOMAIN processes' = Managed \ {result'.name}
                    /\ \A n \in DOMAIN processes' : processes'[n] = processes[n]
            /\ os' = os ]_vars

C17_Witness ==
    /\ result.op = "remove"
    /\ result.res = "Ok"
    /\ result.via = "removed"
    /\ result.name \notin Managed
    /\ \E n \in Managed : processes[n].state = Running

\* C18: a LogBuffer of any capacity C >= 0 holds at most C lines after every
\* push and clear.
C18_LenWithinCapacity == len(buffer) <= capacity(buffer)

\* C19: a LogBuffer of capacity 0 retains nothing: after every push len() is
\* 0 and get_all() is empty.
C19_CapacityZeroRetainsNothing ==
    capacity(buffer) = 0 => (len(buffer) = 0 /\ get_all(buffer) = <<>>)

\* the last n elements of a sequence
LastN(q, n) == SubSeq(q, Len(q) - n + 1, Len(q))

Min(a, b) == IF a <= b THEN a ELSE b

\* C20: after the lines s were pushed into an empty LogBuffer of capacity
\* C >= 1, get_all() is the last min(|s|, C) lines of s in push order.
C20_KeepsNewestInOrder ==
    capacity(buffer) >= 1 =>
        get_all(buffer) = LastN(pushed, Min(Len(pushed), capacity(buffer)))

C20_Witness ==
    /\ capacity(buffer) = 2
    /\ Len(pushed) = 4
    /\ pushed[2] # pushed[3]
    /\ pushed[3] # pushed[4]
    /\ get_all(buffer) = <<pushed[3], pushed[4]>>

\* C21: get_last_n(k) returns, for every buffer content and every k >= 0,
\* the last min(k, len()) lines of get_all() oldest first, and leaves the
\* buffer as it was.
C21_LastNIsSuffix ==
    [][ result'.op = "get_last_n" =>
            /\ result'.list =
                   LastN(get_all(buffer), Min(result'.count, len(buffer)))
            /\ Len(result'.list) = Min(result'.count, len(buffer))
            /\ buffer' = buffer ]_vars

C21_Witness ==
    /\ result.op = "get_last_n"
    /\ result.count = 2
    /\ len(buffer) = 3
    /\ result.list = <<get_all(buffer)[2], get_all(buffer)[3]>>
    /\ get_all(buffer)[2] # get_all(buffer)[3]

\* C22: search(q) returns exactly the buffered lines whose lower-cased text
\* contains the lower-cased q, oldest first, and leaves the buffer as it was;
\* the empty query returns every line.
C22_SearchIsCaseFoldedFilter ==
    [][ result'.op = "search" =>
            LET Matches(l) ==
                    contains(to_lowercase(l.line), to_lowercase(result'.query))
            IN /\ result'.list = SelectSeq(get_all(buffer), Matches)
               /\ (result'.query = <<>> => result'.list = get_all(buffer))
               /\ buffer' = buffer ]_vars

C22_Witness ==
    /\ result.op = "search"
    /\ result.query = <<"e", "R">>
    /\ len(buffer) = 3
    /\ Len(result.list) = 2
    /\ result.list = <<get_all(buffer)[1], get_all(buffer)[3]>>
    /\ get_all(buffer)[1].line = <<"E", "r">>

\* the numbers of the lines of stream s in a sequence of log lines, in order
RECURSIVE NumbersOf(_, _)
NumbersOf(q, s) ==
    IF q = <<>> THEN <<>>
    ELSE IF Head(q).stream = s THEN <<Head(q).line>> \o NumbersOf(Tail(q), s)
    ELSE NumbersOf(Tail(q), s)

\* a run of consecutive line numbers in emission order
InEmissionOrder(q) == \A i \in 1..(Len(q) - 1) : q[i + 1] = q[i] + 1

\* C23: under every interleaving of the stdout reader, the stderr reader and
\* facade readers of one child, the lines of each stream are in the child's
\* LogBuffer - and in every copy a facade reader takes - in the order the
\* child wrote them, none twice and none before it was written.
C23_StreamOrderKept ==
    \A s \in Streams :
        /\ InEmissionOrder(NumbersOf(get_all(buffer), s))
        /\ \A i \in DOMAIN NumbersOf(get_all(buffer), s) :
               NumbersOf(get_all(buffer), s)[i] \in 1..streams[s].emitted
        /\ result.op = "get_logs" => InEmissionOrder(NumbersOf(result.list, s))

C23_Witness ==
    /\ result.op = "get_logs"
    /\ Len(result.list) = 3
    /\ result.list[1].stream = Stderr /\ result.list[1].line = 1
    /\ result.list[2].stream = Stdout /\ result.list[2].line = 1
    /\ result.list[3].stream = Stderr /\ result.list[3].line = 2
    /\ streams[Stdout].held = 2

\* C24: a batch start of an acyclic configuration starts every process after
\* all the processes it depends on: whenever start has been called for u,
\* it was called before for each v that u depends on
DependsOn(config, u) ==
    UNION { Range(config[i].depends_on) : i \in { k \in DOMAIN config : config[k].name = u } }

C24_DependenciesStartedFirst ==
    \A i \in DOMAIN batch.started :
        \A v \in DependsOn(batch.config, batch.started[i]) :
            \E j \in 1..(i - 1) : batch.started[j] = v

\* C25: for a configuration with unique, non-blank names and only declared
\* dependencies, validate fails with DependencyCycle exactly when the
\* depends_on graph has a directed cycle, and succeeds otherwise
IsPath(config, q) ==
    \A i \in 1..(Len(q) - 1) : q[i + 1] \in DependsOn(config, q[i])

\* a directed cycle: a path that leads from a name back onto it
HasCycle(config) ==
    \E k \in 1..Len(config) :
        \E q \in SeqsOfLen(AllNamesOf(config), k) :
            /\ IsPath(config, q)
            /\ q[1] \in DependsOn(config, q[k])

WellFormed(config) ==
    /\ ~HasDuplicate(config)
    /\ \A i \in DOMAIN config :
        /\ ~IsBlankName(config[i].name)
        /\ split_whitespace(config[i].command) # <<>>
        /\ Range(config[i].depends_on) \subseteq AllNamesOf(config)

C25_CycleIffDependencyCycle ==
    (batch.loaded # "" /\ WellFormed(batch.config)) =>
        /\ batch.loaded = "DependencyCycle" <=> HasCycle(batch.config)
        /\ ~HasCycle(batch.config) => batch.loaded = "Ok"

\* a file whose only cycle runs through all three names was rejected
C25_Witness ==
    /\ batch.loaded = "DependencyCycle"
    /\ WellFormed(batch.config)
    /\ Len(batch.config) = 3
    /\ \A i, j \in DOMAIN batch.config :
        batch.config[i].name \in Range(batch.config[j].depends_on) =>
            /\ i # j
            /\ batch.config[j].name \notin Range(batch.config[i].depends_on)

\* C26: PTY process ids are unique: no two children spawned under the same
\* process_id are alive at the same time, so a spawn under an id that still
\* has a handle does not leave the earlier child alive and untracked
C26_PtyIdsUnique ==
    \A j, k \in DOMAIN children :
        (/\ children[j].process_id = children[k].process_id
         /\ children[j].st = "alive"
         /\ children[k].st = "alive") => j = k

\* C27: when the read loop of a PTY child has ended after the child exited,
\* by end of file or by a read error, a process-exit event with its
\* process_id was emitted and no process-output event of the spawn follows it
ExitEmitted(c) == \E i \in DOMAIN c.events : c.events[i].topic = "process-exit"

C27_ExitEventWhenLoopEnds ==
    \A k \in DOMAIN children :
        children[k].reader = "done" =>
            \E i \in DOMAIN children[k].events :
                /\ children[k].events[i] = PtyEvent("process-exit", children[k].process_id)
                /\ \A j \in DOMAIN children[k].events :
                    j > i => children[k].events[j].topic # "process-output"

\* C28: is_running and list_processes report only running processes: once
\* the child an id was last spawned with has exited on its own and its
\* process-exit was emitted, is_running(id) is false and the list omits id
LastSpawnOf(id) ==
    { k \in DOMAIN children :
        /\ children[k].process_id = id
        /\ \A j \in DOMAIN children : children[j].process_id = id => j <= k }

C28_ExitedNotReported ==
    \A id \in PtyIds :
        (\E k \in LastSpawnOf(id) : ExitEmitted(children[k])) =>
            /\ ~pty_is_running(pty, id)
            /\ id \notin { i.process_id : i \in list_processes(pty) }

C30_ManagerFreeWhileSuspended ==
    Suspended => (~ManagerLocked /\ ENABLED StartCall)

\* C31: restart_count never decreases for a managed name: while a name stays
\* managed, no step (auto-restart, restart(name), a new start of the name)
\* lowers the restart_count of its handle or of its info
C31_RestartCountNeverDecreases ==
    [][\A n \in DOMAIN processes \cap DOMAIN processes' :
          /\ processes'[n].restart_count >= processes[n].restart_count
          /\ processes'[n].info_restart_count >= processes[n].info_restart_count
      ]_vars

\* C34: remove(name) for a name that is not managed returns an error and
\* leaves the manager unchanged
C34_RemoveUnmanagedIsError ==
    [][(result'.op = "remove" /\ result'.name \notin DOMAIN processes) =>
          /\ result'.res # "Ok"
          /\ processes' = processes
      ]_vars

\* C35: the DependencyCycle error carries an actual cycle of the graph:
\* every name of the reported list depends on the next one and the last
\* name depends on the first
C35_ReportedListIsCycle ==
    batch.loaded = "DependencyCycle" =>
        /\ batch.cycle # <<>>
        /\ IsPath(batch.config, batch.cycle)
        /\ batch.cycle[1] \in DependsOn(batch.config, batch.cycle[Len(batch.cycle)])

\* a configuration start is said to refuse: no name, or a command that is
\* empty or whitespace only
Unusable(cfg) == cfg.name = "" \/ split_whitespace(cfg.command) = <<>>

\* C33: start refuses an unusable configuration with InvalidConfig and
\* creates no handle: a start step of a configuration without a name, or with
\* an empty or blank command, whose name is not running, returns
\* InvalidConfig and leaves the managed processes as they were
C33_UnusableConfigRefused ==
    [][result'.op = "start" =>
        \A cfg \in Configs, p \in SpawnChoices :
            (/\ Unusable(cfg)
             /\ ~AlreadyRunning(processes, cfg)
             /\ result' = StartRet("start", processes, cfg, p)
             /\ processes' = StartProcs(processes, cfg, p)
             /\ os' = StartOs(processes, cfg, p)) =>
                (result'.res = "InvalidConfig" /\ processes' = processes)
      ]_vars

\* the state of the name n in the table procs; "none" when it is not managed
StateOf(procs, n) == IF n \in DOMAIN procs THEN procs[n].state.tag ELSE "none"

\* the step runs the body of start: a call of start, the second half of
\* restart, or the respawn of check_health after its backoff
StartStep ==
    \/ result'.op = "start"
    \/ op.kind = "restart" /\ op.phase = "restart_sleep"
    \/ op.kind = "check_health" /\ op.phase = "backoff_sleep"

\* the step runs a part of stop or stop_gracefully, called directly or by
\* restart or stop_all
StopStep ==
    \/ op'.kind \in {"stop", "stop_gracefully", "restart", "stop_all"}
    \/ op.kind \in {"stop", "stop_gracefully", "restart", "stop_all"}

\* C32: every state change of a managed handle is one of
\* start: not managed, Stopped or Crashed -> Running;
\* stop, stop_gracefully: Running -> Stopping -> Stopped;
\* check_health: Running -> Crashed; an exit code once recorded stays;
\* and no handle is Stopping once the operation has returned
C32_OnlyListedTransitions ==
    [][/\ \A n \in DOMAIN processes' :
            LET old == StateOf(processes, n)
                new == StateOf(processes', n)
            IN /\ new # old =>
                    \/ /\ new = "Running"
                       /\ old \in {"none", "Stopped", "Crashed"}
                       /\ StartStep
                    \/ /\ new = "Stopping"
                       /\ old = "Running"
                       /\ StopStep
                    \/ /\ new = "Stopped"
                       /\ old = "Stopping"
                       /\ StopStep
                    \/ /\ new = "Crashed"
                       /\ old = "Running"
                       /\ op.kind = "check_health" /\ op.phase = "poll"
               /\ (new = old /\ new = "Crashed") =>
                    processes'[n].state = processes[n].state
       /\ op' = Idle => \A n \in DOMAIN processes' : StateOf(processes', n) # "Stopping"
      ]_vars

\* check_health has returned with one handle that it marked Crashed beside
\* a handle that a stop left Stopped
C32_Witness ==
    /\ result.op = "check_health"
    /\ "a" \in DOMAIN processes
    /\ StateOf(processes, "a") = "Crashed"
    /\ "" \in DOMAIN processes
    /\ StateOf(processes, "") = "Stopped"

\* C36: check_health makes at most one restart attempt per observed exit.
\* An attempt is scheduled only by the step that sees a Running handle's
\* child exited and marks it Crashed; a respawn that fails leaves the handle
\* Crashed with pid None and its restart_count unchanged and adds nothing to
\* the returned list; and a Crashed handle with no attempt pending is left
\* alone by every step of every sweep, whatever budget remains
C36_OneAttemptPerExit ==
    [][/\ (op'.phase = "backoff_sleep" /\ op.phase # "backoff_sleep") =>
            /\ op.kind = "check_health"
            /\ StateOf(processes, op'.name) = "Running"
            /\ StateOf(processes', op'.name) = "Crashed"
       /\ (/\ op.phase = "backoff_sleep" /\ op'.phase # "backoff_sleep"
           /\ StateOf(processes', op.name) # "Running") =>
            /\ processes' = processes
            /\ StateOf(processes, op.name) = "Crashed"
            /\ processes[op.name].pid = NonePid
            /\ op'.restarted = op.restarted
       /\ (op.kind = "check_health" \/ op'.kind = "check_health") =>
            \A n \in DOMAIN processes :
                (/\ StateOf(processes, n) = "Crashed"
                 /\ ~(op.phase = "backoff_sleep" /\ op.name = n)) =>
                    /\ n \in DOMAIN processes'
                    /\ processes'[n] = processes[n]
                    /\ Range(op'.restarted) \ Range(op.restarted) # {n}
       /\ (result'.op = "check_health" /\ result'.res = "Ok") =>
            result'.list = op.restarted
      ]_vars

\* a sweep that saw no exit has returned an empty list although the handle
\* of a is Crashed, restarts automatically and has budget left: its respawn
\* failed in an earlier sweep
C36_Witness ==
    /\ op = Idle
    /\ result.op = "check_health"
    /\ result.res = "Ok"
    /\ result.seen = {}
    /\ result.list = <<>>
    /\ "a" \in DOMAIN processes
    /\ StateOf(processes, "a") = "Crashed"
    /\ processes["a"].pid = NonePid
    /\ ShouldRestart(processes["a"])

\* every managed child is still alive
ChildrenAlive ==
    \A n \in DOMAIN processes :
        processes[n].child # NoChild => os[processes[n].child] = Alive

\* the step is a step of check_health itself: the call, a pass of its loop
\* or its return
SweepStep ==
    /\ op' # op
    /\ op.kind = "check_health" \/ op'.kind = "check_health"

\* C37: check_health on a manager whose children are all alive is a no-op:
\* a step of a sweep taken while every child is alive changes no handle
\* (state, pid, restart_count, timestamps, log buffer), no process and
\* nothing of the list, and a sweep that saw no exit returns the empty list
C37_SweepOfLiveChildrenIsNoOp ==
    [][/\ (SweepStep /\ ChildrenAlive /\ op.phase # "backoff_sleep") =>
            /\ processes' = processes
            /\ os' = os
            /\ op'.restarted = <<>> \/ op'.restarted = op.restarted
       /\ (result'.op = "check_health" /\ op.seen = {}) =>
            /\ result'.res = "Ok"
            /\ result'.list = <<>>
      ]_vars

\* a sweep has returned the empty list over a running child that has
\* logged a line, at a later time than the start of the model's clock
C37_Witness ==
    /\ op = Idle
    /\ result.op = "check_health"
    /\ result.list = <<>>
    /\ result.seen = {}
    /\ "a" \in DOMAIN processes
    /\ processes["a"].state = Running
    /\ os[processes["a"].child] = Alive
    /\ len(processes["a"].log_buffer) > 0
    /\ now > 0

\* C38: a process stopped by request is never restarted by check_health,
\* whatever its auto_restart and restart_limit: while a sweep runs, from its
\* call to its return, a Stopped handle stays as it is and its name is
\* neither pushed to the list of restarted names nor returned in it
C38_StoppedNotRestarted ==
    [][(op.kind = "check_health" \/ op'.kind = "check_health") =>
        \A n \in DOMAIN processes :
            StateOf(processes, n) = "Stopped" =>
                /\ n \in DOMAIN processes'
                /\ processes'[n] = processes[n]
                /\ n \notin Range(op'.restarted)
                /\ result'.op = "check_health" => n \notin Range(result'.list)
      ]_vars

\* a sweep has returned while a was Stopped by a stop that had to wait for
\* its child, although a restarts automatically and has budget left
C38_Witness ==
    /\ op = Idle
    /\ result.op = "check_health"
    /\ result.res = "Ok"
    /\ "a" \in DOMAIN processes
    /\ processes["a"].state = Stopped
    /\ processes["a"].stopped_at # NoneTime
    /\ ShouldRestart(processes["a"])
    /\ "a" \notin Range(result.list)

\* C40: the controller and the PTY manager stay consistent: whenever no PTY
\* call is in progress, every config id the controller tracks as running
\* has a handle in the PTY manager under its config's name
C40_TrackedHasHandle ==
    pty.call = NoPtyCall =>
        \A id \in DOMAIN running : pty_is_running(pty, running[id].process_id)

\* C39: every successful start of a name - a first start, a start over a
\* stopped or crashed handle, the second half of restart, the respawn of
\* check_health - installs a new, empty log buffer, so get_logs(name)
\* returns none of the lines captured before it; and a line that a reader
\* task of a replaced handle pushes reaches no handle's buffer
C39_NewBufferPerIncarnation ==
    [][/\ (result'.op \in {"start", "restart"} /\ result'.res = "Ok") =>
            /\ get_logs(processes', result'.name) = <<>>
            /\ processes'[result'.name].log_buffer = LogBuffer_new
       /\ (op.kind = "check_health" /\ Len(op'.restarted) > Len(op.restarted)) =>
            /\ get_logs(processes', op.name) = <<>>
            /\ processes'[op.name].log_buffer = LogBuffer_new
       /\ (arcs' # arcs /\ op' = op /\ result' = NoResult) =>
            /\ processes' = processes
            /\ \A n \in CallNames : get_logs(processes', n) = get_logs(processes, n)
       /\ result'.op = "get_logs" =>
            result'.list = get_logs(processes, result'.name)
      ]_vars

\* get_logs has returned nothing for a name that check_health respawned,
\* while the buffer of the handle it replaced holds a line
C39_Witness ==
    /\ result.op = "get_logs"
    /\ result.res = "Some"
    /\ result.list = <<>>
    /\ processes[result.name].state = Running
    /\ processes[result.name].restart_count = 1
    /\ arcs # <<>>
    /\ arcs[1].name = result.name
    /\ len(arcs[1].buffer) > 0

====
